---------------------------- MODULE Spec2Model ----------------------------
(***************************************************************************)
(* The internship-postings pipeline of src/shixiseng.py and src/app.py:    *)
(* raw CSV rows -> load_and_clean_data -> cleaned frame -> filter ->       *)
(* filtered frame.  Both programs are Streamlit scripts: every widget      *)
(* change re-runs the whole script on the widget state.                    *)
(*                                                                         *)
(* Text.  A text is a sequence of characters; a character is a string.     *)
(* An ASCII character is the one-letter string itself ("3", "-", "a").     *)
(* The module's strings are ASCII, so a Chinese character is written as a  *)
(* token of several letters:                                               *)
(*   yuan 元  tian 天  mian 面  yi4 议  ge 个  yue 月  zhi 至  shao 少     *)
(*   chang 长  qi 期  ling 灵  huo 活  quan 全  bu4 部  ri 日  zhi4 制     *)
(*   ben 本  ke 科  ji 及  yi3 以  shang 上  bo 博  shi 士  shuo 硕        *)
(*   yan 研  jiu 究  sheng 生  xue 学  da 大  zhuan 专  bu 不  xian 限     *)
(*   hai 海  pu 浦  dong 东  xin 新  qu 区  bei 北  jing 京  shi_c 市      *)
(*   shen 深  zhen 圳  guang 广  zhou 州  hang 杭  cheng 成  du 都         *)
(*   nan 南  wu 武  han 汉  xi 西  an 安  su 苏  chong 重  qing 庆         *)
(*   jin 津  wei 未  zhi1 知  dot ·                                        *)
(* Welfare words:                                                         *)
(*   zhuan3 转  zheng 正  ji1 机  hui 会  liu 留  yong 用  fang 房  bu3 补 *)
(*   zhu 住  tie 贴  can 餐  fan 饭  xia 下  wu3 午  cha 茶  ling2 零      *)
(*   shi2 食  zhou1 周  mo 末  shuang 双  xiu 休  wu5 五  xian3 险  yi1 一 *)
(*   jin1 金  jiao 交  tong 通  zhu4 助  jie 节  fu 福  li 利  nian 年     *)
(*   zhong 终  jiang 奖  tan 弹  xing 性  gong 工  zuo 作  tuan 团         *)
(*   jian 建  dong4 动  dai 带  xin1 薪  jia 假  ding 定  ti 体  jian3 检  *)
(* Vocabulary and category words of app.py:                               *)
(*   shu 数  ju 据  cang 仓  ku 库  hu 湖  shi3 实  shi5 时  ji4 计        *)
(*   suan 算  li2 离  xian4 线  xi2 习  qi2 其  ta 他                      *)
(* Separators: "," ";" " " and comma_cn ，  dun 、  semi_cn ；             *)
(* A missing CSV cell (pandas NaN) is the one-character text NA, whose     *)
(* character occurs in no real text.                                       *)
(***************************************************************************)
EXTENDS Integers, Sequences, FiniteSets, TLC

\* ------------------------------------------------------------------ text

\* The characters of an ASCII string, one per letter.
Chars(s) == [i \in 1..Len(s) |-> SubSeq(s, i, i)]

\* pandas' NaN in an object column (a missing cell).
NA == <<"<NA>">>

\* pd.isna(x) on a cell.
isna(x) == x = NA

\* Python's str(x) of a cell: the text itself, 'nan' for a missing cell.
str(x) == IF isna(x) THEN Chars("nan") ELSE x

Digits == {"0", "1", "2", "3", "4", "5", "6", "7", "8", "9"}

DigitValue(c) ==
  CASE c = "0" -> 0 [] c = "1" -> 1 [] c = "2" -> 2 [] c = "3" -> 3
    [] c = "4" -> 4 [] c = "5" -> 5 [] c = "6" -> 6 [] c = "7" -> 7
    [] c = "8" -> 8 [] c = "9" -> 9

\* Python's int(run) of a run of decimal digits.
RECURSIVE int(_)
int(run) ==
  IF run = <<>> THEN 0
  ELSE 10 * int(SubSeq(run, 1, Len(run) - 1)) + DigitValue(run[Len(run)])

\* The length of the longest prefix of s made of digits.
RECURSIVE DigitPrefixLen(_)
DigitPrefixLen(s) ==
  IF s = <<>> \/ Head(s) \notin Digits THEN 0 ELSE 1 + DigitPrefixLen(Tail(s))

\* re.findall(r'\d+', s): the maximal digit runs of s, left to right.
RECURSIVE findall_digits(_)
findall_digits(s) ==
  IF s = <<>> THEN <<>>
  ELSE IF Head(s) \in Digits
       THEN LET n == DigitPrefixLen(s)
            IN  <<SubSeq(s, 1, n)>> \o findall_digits(SubSeq(s, n + 1, Len(s)))
       ELSE findall_digits(Tail(s))

\* Python's `sub in s` on texts.
Contains(s, sub) ==
  \E i \in 0..(Len(s) - Len(sub)) : SubSeq(s, i + 1, i + Len(sub)) = sub

\* The set of elements of a sequence.
Range(s) == {s[i] : i \in 1..Len(s)}

\* ---------------------------------------------------------------- numbers

\* numpy's NaN in a numeric column; no digit run parses to it.
NaN == -1

\* Python's int(x / 2) for an int x >= 0 (true division, then truncation).
int_half(x) == x \div 2


\* ------------------------------------------- shixiseng.py: field parsers

\* extract_avg_salary: the mean of the first two digit runs, truncated.
extract_avg_salary(salary_str) ==
  IF isna(salary_str) THEN NaN
  ELSE LET numbers == findall_digits(str(salary_str))
       IN  IF Len(numbers) >= 2
           THEN int_half(int(numbers[1]) + int(numbers[2]))
           ELSE IF Len(numbers) = 1 THEN int(numbers[1])
           ELSE NaN

\* clean_duration: "<first digit run>个月", or the text itself without one.
clean_duration(duration_str) ==
  IF isna(duration_str) THEN NA
  ELSE LET numbers == findall_digits(str(duration_str))
       IN  IF numbers # <<>> THEN numbers[1] \o <<"ge", "yue">>
           ELSE duration_str

\* extract_duration_months: the first digit run as an integer.
extract_duration_months(duration_str) ==
  IF isna(duration_str) THEN NaN
  ELSE LET numbers == findall_digits(str(duration_str))
       IN  IF numbers # <<>> THEN int(numbers[1]) ELSE NaN

\* Python's str.strip() for the whitespace of the texts: the blank.
RECURSIVE lstrip(_)
lstrip(s) == IF s # <<>> /\ Head(s) = " " THEN lstrip(Tail(s)) ELSE s

RECURSIVE rstrip(_)
rstrip(s) ==
  IF s # <<>> /\ s[Len(s)] = " " THEN rstrip(SubSeq(s, 1, Len(s) - 1)) ELSE s

strip(s) == rstrip(lstrip(s))

\* The twelve city names of city_mapping, in the order of the dict.
CityNames ==
  << <<"bei", "jing">>, <<"shang", "hai">>, <<"shen", "zhen">>,
     <<"guang", "zhou">>, <<"hang", "zhou">>, <<"cheng", "du">>,
     <<"nan", "jing">>, <<"wu", "han">>, <<"xi", "an">>,
     <<"su", "zhou">>, <<"chong", "qing">>, <<"tian", "jin">> >>

\* city_mapping as its (key, value) pairs in insertion order: each city X
\* is followed by X市, both mapped to X.
city_mapping ==
  [k \in 1..(2 * Len(CityNames)) |->
     LET name == CityNames[(k + 1) \div 2]
     IN  IF k % 2 = 1 THEN <<name, name>>
         ELSE <<name \o <<"shi_c">>, name>>]

\* The last key contained instead of the first.
extract_city_last_key(location_str) ==
  IF isna(location_str) THEN <<"wei", "zhi1">>
  ELSE LET location == strip(str(location_str))
           exact    == {k \in DOMAIN city_mapping : city_mapping[k][1] = location}
           inside   == {k \in DOMAIN city_mapping :
                          Contains(location, city_mapping[k][1])}
           last(S)  == CHOOSE k \in S : \A j \in S : k >= j
       IN  IF exact # {} THEN city_mapping[last(exact)][2]
           ELSE IF inside # {} THEN city_mapping[last(inside)][2]
           ELSE location

\* extract_city: exact key, else the first key contained, else the text.
extract_city(location_str) ==
  IF isna(location_str) THEN <<"wei", "zhi1">>
  ELSE LET location == strip(str(location_str))
           exact    == {k \in DOMAIN city_mapping : city_mapping[k][1] = location}
           inside   == {k \in DOMAIN city_mapping :
                          Contains(location, city_mapping[k][1])}
           first(S) == CHOOSE k \in S : \A j \in S : k <= j
       IN  IF exact # {} THEN city_mapping[first(exact)][2]
           ELSE IF inside # {} THEN city_mapping[first(inside)][2]
           ELSE location


\* ------------------------------------------------- shixiseng.py: taggers

LowerLetters == Chars("abcdefghijklmnopqrstuvwxyz")
UpperLetters == Chars("ABCDEFGHIJKLMNOPQRSTUVWXYZ")

\* The upper-case letter of each lower-case letter, and the reverse.
UpperOf ==
  [c \in {LowerLetters[k] : k \in 1..26} |->
     UpperLetters[CHOOSE k \in 1..26 : LowerLetters[k] = c]]
LowerOf ==
  [c \in {UpperLetters[k] : k \in 1..26} |->
     LowerLetters[CHOOSE k \in 1..26 : UpperLetters[k] = c]]

\* Python's str.upper(), character by character.
upper(s) ==
  [i \in 1..Len(s) |-> IF s[i] \in DOMAIN UpperOf THEN UpperOf[s[i]] ELSE s[i]]

\* Python's str.lower(), character by character.
lower(s) ==
  [i \in 1..Len(s) |-> IF s[i] \in DOMAIN LowerOf THEN LowerOf[s[i]] ELSE s[i]]

TECH_SKILLS ==
  << Chars("Java"), Chars("Python"), Chars("SQL"), Chars("Hadoop"),
     Chars("Spark"), Chars("Flink"), Chars("Hive"), Chars("Kafka"),
     Chars("Scala"), Chars("C++"), Chars("Linux"), Chars("MySQL"),
     Chars("Redis"), Chars("HBase"), Chars("Elasticsearch"),
     Chars("Docker"), Chars("Kubernetes") >>

\* The keywords that occur in the description as they are written.
MatchVocabularyCaseSensitive(vocabulary, description) ==
  LET Hit(skill) == Contains(str(description), skill)
  IN  SelectSeq(vocabulary, Hit)

\* The keywords of a vocabulary whose upper-cased form occurs in the
\* upper-cased description, in vocabulary order.
MatchVocabulary(vocabulary, description) ==
  LET description_upper == upper(str(description))
      Hit(skill) == Contains(description_upper, upper(skill))
  IN  SelectSeq(vocabulary, Hit)

\* extract_skills of shixiseng.py.
extract_skills(description) ==
  IF isna(description) THEN <<>> ELSE MatchVocabulary(TECH_SKILLS, description)

\* The characters of the class [,，、；;\s] of the welfare split.
WelfareSeparators == {",", "comma_cn", "dun", "semi_cn", ";", " "}

\* re.split(r'[,，、；;\s]+', s) with its empty pieces dropped: the maximal
\* runs of characters that are no separator, left to right.
RECURSIVE SplitTokens(_, _)
SplitTokens(s, seps) ==
  IF s = <<>> THEN <<>>
  ELSE IF Head(s) \in seps THEN SplitTokens(Tail(s), seps)
  ELSE LET stop == {i \in 1..Len(s) : s[i] \in seps}
           n    == IF stop = {} THEN Len(s)
                   ELSE (CHOOSE i \in stop : \A j \in stop : i <= j) - 1
       IN  <<SubSeq(s, 1, n)>> \o SplitTokens(SubSeq(s, n + 1, Len(s)), seps)

ZhuanZhengJiHui == <<"zhuan3", "zheng", "ji1", "hui">>
FangBu          == <<"fang", "bu3">>
CanBu           == <<"can", "bu3">>
XiaWuCha        == <<"xia", "wu3", "cha">>
ZhouMoShuangXiu == <<"zhou1", "mo", "shuang", "xiu">>
WuXianYiJin     == <<"wu5", "xian3", "yi1", "jin1">>
JiaoTongBuZhu   == <<"jiao", "tong", "bu3", "zhu4">>
JieRiFuLi       == <<"jie", "ri", "fu", "li">>
NianZhongJiang  == <<"nian", "zhong", "jiang">>
TanXingGongZuo  == <<"tan", "xing", "gong", "zuo">>
DaiXinNianJia   == <<"dai", "xin1", "nian", "jia">>
DingQiTiJian    == <<"ding", "qi", "ti", "jian3">>

\* welfare_mapping as its (key, value) pairs.
welfare_mapping ==
  << <<<<"zhuan3", "zheng">>, ZhuanZhengJiHui>>,
     <<ZhuanZhengJiHui, ZhuanZhengJiHui>>,
     <<<<"liu", "yong", "ji1", "hui">>, ZhuanZhengJiHui>>,
     <<FangBu, FangBu>>,
     <<<<"zhu", "fang", "bu3", "tie">>, FangBu>>,
     <<CanBu, CanBu>>,
     <<<<"fan", "bu3">>, CanBu>>,
     <<XiaWuCha, XiaWuCha>>,
     <<<<"ling2", "shi2">>, XiaWuCha>>,
     <<ZhouMoShuangXiu, ZhouMoShuangXiu>>,
     <<<<"shuang", "xiu">>, ZhouMoShuangXiu>>,
     <<WuXianYiJin, WuXianYiJin>>,
     <<<<"wu5", "xian3">>, WuXianYiJin>>,
     <<JiaoTongBuZhu, JiaoTongBuZhu>>,
     <<<<"jiao", "tong", "bu3", "tie">>, JiaoTongBuZhu>>,
     <<JieRiFuLi, JieRiFuLi>>,
     <<NianZhongJiang, NianZhongJiang>>,
     <<<<"jiang", "jin1">>, NianZhongJiang>>,
     <<TanXingGongZuo, TanXingGongZuo>>,
     <<<<"tuan", "jian">>, <<"tuan", "jian", "huo", "dong4">>>>,
     <<DaiXinNianJia, DaiXinNianJia>>,
     <<DingQiTiJian, DingQiTiJian>> >>

\* The table read with the empty text for a tag that is no key.
welfare_mapping_get_or_empty(tag) ==
  LET hit == {k \in DOMAIN welfare_mapping : welfare_mapping[k][1] = tag}
  IN  IF hit = {} THEN <<>> ELSE welfare_mapping[CHOOSE k \in hit : TRUE][2]

\* welfare_mapping.get(tag, tag)
welfare_mapping_get(tag) ==
  LET hit == {k \in DOMAIN welfare_mapping : welfare_mapping[k][1] = tag}
  IN  IF hit = {} THEN tag ELSE welfare_mapping[CHOOSE k \in hit : TRUE][2]

\* The loop of extract_welfare_tags: append each mapped tag not yet there.
RECURSIVE standardize_tags(_, _)
standardize_tags(tags, standardized_tags) ==
  IF tags = <<>> THEN standardized_tags
  ELSE LET tag        == strip(Head(tags))
           mapped_tag == welfare_mapping_get(tag)
       IN  IF tag # <<>> /\ mapped_tag \notin Range(standardized_tags)
           THEN standardize_tags(Tail(tags), Append(standardized_tags, mapped_tag))
           ELSE standardize_tags(Tail(tags), standardized_tags)

\* extract_welfare_tags of shixiseng.py.
extract_welfare_tags(welfare_str) ==
  IF isna(welfare_str) THEN <<>>
  ELSE standardize_tags(SplitTokens(str(welfare_str), WelfareSeparators), <<>>)


\* ---------------------------------------- shixiseng.py: the cleaned frame

\* A raw row is a record of the cells of the columns the pipeline reads:
\*   salary_range 薪资范围, location 工作地点, education 学历要求,
\*   duration 实习时长, description 职位描述, welfare 福利待遇.
\* A row of a frame carries idx, its label in the frame's index (its
\* position in the file).

\* load_and_clean_data of shixiseng.py on the rows read_csv returned: the
\* derived columns are attached and no row is dropped.
load_and_clean_data(rows) ==
  [i \in 1..Len(rows) |->
     LET duration == clean_duration(rows[i].duration)
     IN  [ idx             |-> i,
           avg_salary      |-> extract_avg_salary(rows[i].salary_range),
           education       |-> rows[i].education,
           duration        |-> duration,
           duration_months |-> extract_duration_months(duration),
           city            |-> extract_city(rows[i].location),
           matched_skills  |-> extract_skills(rows[i].description),
           welfare_tags    |-> extract_welfare_tags(rows[i].welfare) ]]

\* The option "全部" (all) of the education and duration select boxes.
QuanBu  == <<"quan", "bu4">>
BuXian  == <<"bu", "xian">>
DaZhuan == <<"da", "zhuan">>
BenKe   == <<"ben", "ke">>
ShuoShi == <<"shuo", "shi">>
BoShi   == <<"bo", "shi">>

\* education_hierarchy of filter_data: the admitted values of each level.
education_hierarchy(education) ==
  CASE education = BuXian  -> {BuXian, DaZhuan, BenKe, ShuoShi, BoShi}
    [] education = DaZhuan -> {DaZhuan, BenKe, ShuoShi, BoShi}
    [] education = BenKe   -> {BenKe, ShuoShi, BoShi}
    [] education = ShuoShi -> {ShuoShi, BoShi}
    [] education = BoShi   -> {BoShi}

education_levels == {BuXian, DaZhuan, BenKe, ShuoShi, BoShi}

\* a >= b and a <= b on a numeric column: false when the cell is NaN.
ge(a, b) == a # NaN /\ a >= b
le(a, b) == a # NaN /\ a <= b

\* The city selection without the test for an empty selection.
filter_cities_always(frame, cities) ==
  LET keep(r) == r.city \in cities IN SelectSeq(frame, keep)

\* filter_data, lines 345-346: the city selection.
filter_cities(frame, cities) ==
  IF cities # {}
  THEN LET keep(r) == r.city \in cities IN SelectSeq(frame, keep)
  ELSE frame

\* filter_data, lines 348-357: the education threshold on the 学历要求 column.
filter_education(frame, education) ==
  IF education # QuanBu /\ education \in education_levels
  THEN LET keep(r) == r.education \in education_hierarchy(education)
       IN  SelectSeq(frame, keep)
  ELSE frame

\* filter_data, line 360: re.findall(r'\d+', duration)[0] raises IndexError
\* when the selected option holds no digit run.
duration_raises(duration) ==
  duration # QuanBu /\ findall_digits(duration) = <<>>

\* The minimum duration as a strict bound.
filter_duration_strict(frame, duration) ==
  IF duration # QuanBu
  THEN LET duration_num == int(findall_digits(duration)[1])
           keep(r)      == ge(r.duration_months, duration_num + 1)
       IN  SelectSeq(frame, keep)
  ELSE frame

\* filter_data, lines 359-361: the minimum duration.
filter_duration(frame, duration) ==
  IF duration # QuanBu
  THEN LET duration_num == int(findall_digits(duration)[1])
           keep(r)      == ge(r.duration_months, duration_num)
       IN  SelectSeq(frame, keep)
  ELSE frame

\* The salary range with | in place of &.
filter_salary_either(frame, salary_range) ==
  LET keep(r) == ge(r.avg_salary, salary_range[1]) \/ le(r.avg_salary, salary_range[2])
  IN  SelectSeq(frame, keep)

\* filter_data, lines 363-366: the salary range, on every call.
filter_salary(frame, salary_range) ==
  LET keep(r) == ge(r.avg_salary, salary_range[1]) /\ le(r.avg_salary, salary_range[2])
  IN  SelectSeq(frame, keep)

\* has_required_skills with any() in place of all().
has_any_required_skill(skills_list, required_skills) ==
  \E skill \in required_skills : skill \in Range(skills_list)

\* has_required_skills: all(skill in skills_list for skill in required_skills)
has_required_skills(skills_list, required_skills) ==
  \A skill \in required_skills : skill \in Range(skills_list)

\* filter_data, lines 368-371.
filter_skills(frame, required_skills) ==
  IF required_skills # {}
  THEN LET keep(r) == has_required_skills(r.matched_skills, required_skills)
       IN  SelectSeq(frame, keep)
  ELSE frame

\* Any instead of all.
has_any_welfare(welfare_list, welfare_prefs) ==
  \E welfare \in welfare_prefs : welfare \in Range(welfare_list)

\* has_all_welfare: all(welfare in welfare_list for welfare in welfare_prefs)
has_all_welfare(welfare_list, welfare_prefs) ==
  \A welfare \in welfare_prefs : welfare \in Range(welfare_list)

\* filter_data, lines 373-384.
filter_welfare(frame, welfare_prefs) ==
  IF welfare_prefs # {}
  THEN LET keep(r) == has_all_welfare(r.welfare_tags, welfare_prefs)
       IN  SelectSeq(frame, keep)
  ELSE frame

\* The rows of a frame in reverse order.
Reverse(frame) == [i \in 1..Len(frame) |-> frame[Len(frame) + 1 - i]]

\* filter_data returning its rows sorted, the last row of the input first.
filter_data_sorted(frame, c) ==
  IF duration_raises(c.duration)
  THEN [raised |-> TRUE, rows |-> <<>>]
  ELSE [raised |-> FALSE,
        rows   |-> Reverse(
                     filter_welfare(
                       filter_skills(
                         filter_salary(
                           filter_duration(
                             filter_education(
                               filter_cities(frame, c.cities),
                               c.education),
                             c.duration),
                           c.salary_range),
                         c.required_skills),
                       c.welfare_prefs))]

\* filter_data(df, cities, education, duration, salary_range,
\* required_skills, welfare_prefs) on the criteria record c: the steps in
\* the order of the code.  raised: the call raised instead of returning.
filter_data(frame, c) ==
  IF duration_raises(c.duration)
  THEN [raised |-> TRUE, rows |-> <<>>]
  ELSE [raised |-> FALSE,
        rows   |-> filter_welfare(
                     filter_skills(
                       filter_salary(
                         filter_duration(
                           filter_education(
                             filter_cities(frame, c.cities),
                             c.education),
                           c.duration),
                         c.salary_range),
                       c.required_skills),
                     c.welfare_prefs)]


\* --------------------------------------------------- app.py: the parsers

\* The pair (None, None) of parse_salary, as it lands in the float columns.
NoSalary == <<NaN, NaN>>

\* parse_salary taking the first and the last run as the bounds.
parse_salary_first_last(salary_str) ==
  LET nums == findall_digits(str(salary_str))
  IN  IF Len(nums) >= 2 THEN <<int(nums[1]), int(nums[Len(nums)])>>
      ELSE IF Len(nums) = 1 THEN <<int(nums[1]), int(nums[1])>>
      ELSE NoSalary

\* parse_salary: (first run, second run), a single run twice, or nothing.
parse_salary(salary_str) ==
  LET nums == findall_digits(str(salary_str))
  IN  IF Len(nums) >= 2 THEN <<int(nums[1]), int(nums[2])>>
      ELSE IF Len(nums) = 1 THEN <<int(nums[1]), int(nums[1])>>
      ELSE NoSalary

\* Lines 101-102: ((最低薪资 + 最高薪资) / 2).fillna(0).astype(int)
average_salary(bounds) ==
  IF bounds[1] = NaN \/ bounds[2] = NaN THEN 0
  ELSE int_half(bounds[1] + bounds[2])

\* x.split(sep)[0]: the text left of the first sep (all of x without one).
split_first(x, sep) ==
  LET at == {i \in 1..Len(x) : x[i] = sep}
  IN  IF at = {} THEN x
      ELSE SubSeq(x, 1, (CHOOSE i \in at : \A j \in at : i <= j) - 1)

\* The separator '·' tested before '-'.
city_of_location_dot_first(location) ==
  LET x == str(location)
  IN  IF "dot" \in Range(x) THEN split_first(x, "dot")
      ELSE IF "-" \in Range(x) THEN split_first(x, "-")
      ELSE x

\* Lines 105-107: the city of a location cell, after astype(str).
city_of_location(location) ==
  LET x == str(location)
  IN  IF "-" \in Range(x) THEN split_first(x, "-")
      ELSE IF "dot" \in Range(x) THEN split_first(x, "dot")
      ELSE x

TECH_KEYWORDS ==
  << Chars("Hadoop"), Chars("Spark"), Chars("Flink"), Chars("Python"),
     Chars("Java"), Chars("SQL"), Chars("Kafka"), Chars("Hive"),
     Chars("HBase"), Chars("Scala"), Chars("ETL"), Chars("MySQL"),
     Chars("Redis"), Chars("Elasticsearch"), Chars("Docker"),
     Chars("Kubernetes"), Chars("Linux"), Chars("Shell"),
     Chars("ClickHouse"),
     <<"shu", "ju", "cang", "ku">>, <<"shu", "ju", "hu">>,
     <<"shi3", "shi5", "ji4", "suan">>, <<"li2", "xian4", "ji4", "suan">>,
     Chars("MapReduce"), Chars("HDFS") >>

\* extract_skills of app.py.
extract_skills_app(desc) ==
  IF isna(desc) THEN <<>> ELSE MatchVocabulary(TECH_KEYWORDS, desc)

\* The families tested lowest first.
standardize_education_lowest_first(edu) ==
  LET edu_str == lower(str(edu))
  IN  IF Contains(edu_str, DaZhuan)
         \/ Contains(edu_str, <<"zhuan", "ke">>) THEN DaZhuan
      ELSE IF Contains(edu_str, BenKe)
              \/ Contains(edu_str, <<"xue", "shi">>) THEN BenKe
      ELSE IF Contains(edu_str, ShuoShi)
              \/ Contains(edu_str, <<"yan", "jiu", "sheng">>) THEN ShuoShi
      ELSE IF Contains(edu_str, BoShi) THEN BoShi
      ELSE BuXian

\* standardize_education: the first keyword family present, doctorate first.
standardize_education(edu) ==
  LET edu_str == lower(str(edu))
  IN  IF Contains(edu_str, BoShi) THEN BoShi
      ELSE IF Contains(edu_str, ShuoShi)
              \/ Contains(edu_str, <<"yan", "jiu", "sheng">>) THEN ShuoShi
      ELSE IF Contains(edu_str, BenKe)
              \/ Contains(edu_str, <<"xue", "shi">>) THEN BenKe
      ELSE IF Contains(edu_str, DaZhuan)
              \/ Contains(edu_str, <<"zhuan", "ke">>) THEN DaZhuan
      ELSE BuXian

SanGeYue      == <<"3", "ge", "yue">>
LiuGeYue      == <<"6", "ge", "yue">>
ChangQiShiXi  == <<"chang", "qi", "shi3", "xi2">>
QiTa          == <<"qi2", "ta">>

\* The test for '6' before the test for '3'.
classify_duration_six_first(duration) ==
  LET duration_str == str(duration)
  IN  IF "6" \in Range(duration_str) /\ "yue" \in Range(duration_str)
      THEN LiuGeYue
      ELSE IF "3" \in Range(duration_str) /\ "yue" \in Range(duration_str)
      THEN SanGeYue
      ELSE IF Contains(duration_str, <<"chang", "qi">>)
              \/ Contains(duration_str, <<"ling", "huo">>)
      THEN ChangQiShiXi
      ELSE QiTa

\* classify_duration: 3个月, 6个月, 长期实习 or 其他.
classify_duration(duration) ==
  LET duration_str == str(duration)
  IN  IF "3" \in Range(duration_str) /\ "yue" \in Range(duration_str)
      THEN SanGeYue
      ELSE IF "6" \in Range(duration_str) /\ "yue" \in Range(duration_str)
      THEN LiuGeYue
      ELSE IF Contains(duration_str, <<"chang", "qi">>)
              \/ Contains(duration_str, <<"ling", "huo">>)
      THEN ChangQiShiXi
      ELSE QiTa

\* extract_welfare of app.py: the non-empty stripped pieces of the split.
extract_welfare(welfare_str) ==
  IF isna(welfare_str) THEN <<>>
  ELSE LET tags     == SplitTokens(str(welfare_str), WelfareSeparators)
           stripped == [i \in 1..Len(tags) |-> strip(tags[i])]
           nonempty(tag) == tag # <<>>
       IN  SelectSeq(stripped, nonempty)

\* Line 163: (平均薪资 > 0) & 城市.notna() & (城市 != '').  The city column
\* holds the texts of astype(str), so notna() is true of every row.
row_is_valid(r) == r.avg_salary > 0 /\ ~isna(r.city) /\ r.city # <<>>

\* load_and_clean_data of app.py on the rows read_csv returned.
\*   min_salary 最低薪资, max_salary 最高薪资, avg_salary 平均薪资,
\*   city 城市, skill_tags 技能标签, education_class 学历分类,
\*   duration_class 实习时长分类, welfare_tags 福利标签.
load_and_clean_data_app(rows) ==
  LET derived ==
        [i \in 1..Len(rows) |->
           LET bounds == parse_salary(rows[i].salary_range)
           IN  [ idx             |-> i,
                 min_salary      |-> bounds[1],
                 max_salary      |-> bounds[2],
                 avg_salary      |-> average_salary(bounds),
                 city            |-> city_of_location(rows[i].location),
                 skill_tags      |-> extract_skills_app(rows[i].description),
                 education_class |-> standardize_education(rows[i].education),
                 duration_class  |-> classify_duration(rows[i].duration),
                 welfare_tags    |-> extract_welfare(rows[i].welfare) ]]
  IN  SelectSeq(derived, row_is_valid)

\* --------------------------------------------- app.py: the inline filter

\* Lines 229-230.
filter_cities_app(frame, selected_cities) ==
  IF selected_cities # {}
  THEN LET keep(r) == r.city \in selected_cities IN SelectSeq(frame, keep)
  ELSE frame

\* Lines 232-233.
filter_edu_app(frame, selected_edu) ==
  IF selected_edu # {}
  THEN LET keep(r) == r.education_class \in selected_edu
       IN  SelectSeq(frame, keep)
  ELSE frame

\* Lines 235-236.
filter_durations_app(frame, selected_durations) ==
  IF selected_durations # {}
  THEN LET keep(r) == r.duration_class \in selected_durations
       IN  SelectSeq(frame, keep)
  ELSE frame

\* Lines 238-241.
filter_salary_app(frame, salary_range) ==
  LET keep(r) == r.avg_salary >= salary_range[1] /\ r.avg_salary <= salary_range[2]
  IN  SelectSeq(frame, keep)

\* Lines 243-246: all(skill in x for skill in selected_skills).
filter_skills_app(frame, selected_skills) ==
  IF selected_skills # {}
  THEN LET keep(r) == \A skill \in selected_skills : skill \in Range(r.skill_tags)
       IN  SelectSeq(frame, keep)
  ELSE frame

\* Lines 248-251: any(w in x for w in selected_welfare).
filter_welfare_app(frame, selected_welfare) ==
  IF selected_welfare # {}
  THEN LET keep(r) == \E w \in selected_welfare : w \in Range(r.welfare_tags)
       IN  SelectSeq(frame, keep)
  ELSE frame

\* filtered_df of app.py, lines 227-251, on the widget state c.
filtered_df_app(frame, c) ==
  filter_welfare_app(
    filter_skills_app(
      filter_salary_app(
        filter_durations_app(
          filter_edu_app(
            filter_cities_app(frame, c.selected_cities),
            c.selected_edu),
          c.selected_durations),
        c.salary_range),
      c.selected_skills),
    c.selected_welfare)


\* ------------------------------------------------ reading the data file

\* app.py, lines 55-59 and line 63.
possible_paths ==
  << "../Big_data_development_results.csv",
     "Big_data_development_results.csv",
     "./Big_data_development_results.csv" >>

encodings == <<"utf-8", "gbk", "gb18030", "utf-8-sig">>

\* shixiseng.py, line 395; pd.read_csv(file_path) decodes as utf-8.
DATA_PATH == "Big_data_development_results.csv"

\* Every (path, encoding) pair a loader can ask for.
ReadablePairs ==
  {<<possible_paths[i], encodings[k]>> :
     i \in 1..Len(possible_paths), k \in 1..Len(encodings)}

\* The inner loop of app.py (lines 63-70) from the k-th encoding on: the
\* pairs read, up to the first one pd.read_csv returns for (break); an
\* exception of any kind goes on to the next encoding (continue).
RECURSIVE read_encodings(_, _, _)
read_encodings(file_path, k, can_read) ==
  IF k > Len(encodings) THEN <<>>
  ELSE IF <<file_path, encodings[k]>> \in can_read
       THEN << <<file_path, encodings[k]>> >>
       ELSE << <<file_path, encodings[k]>> >>
              \o read_encodings(file_path, k + 1, can_read)

\* The outer loop without its break: every path is read.
RECURSIVE read_every_path(_, _)
read_every_path(i, can_read) ==
  IF i > Len(possible_paths) THEN <<>>
  ELSE read_encodings(possible_paths[i], 1, can_read)
         \o read_every_path(i + 1, can_read)

\* The outer loop of app.py (lines 62-72) from the i-th path on: it ends
\* after the path that gave a frame (df is not None: break).
RECURSIVE read_paths(_, _)
read_paths(i, can_read) ==
  IF i > Len(possible_paths) THEN <<>>
  ELSE LET attempts == read_encodings(possible_paths[i], 1, can_read)
       IN  IF attempts[Len(attempts)] \in can_read THEN attempts
           ELSE attempts \o read_paths(i + 1, can_read)

\* Lines 52-78 of app.py: the pairs read, and whether df is not None.
read_csv_app(can_read) ==
  LET attempts == read_paths(1, can_read)
  IN  [ attempts |-> attempts,
        found    |-> \E n \in 1..Len(attempts) : attempts[n] \in can_read ]

\* ------------------------------------------------------ the page's steps

\* The filter working on the frame itself: the frame is what it kept.
frame_after_filter_in_place(frame, filtered) == filtered

\* The frame the script holds after a filter call that returned filtered:
\* both filters start from df.copy() (shixiseng.py line 343, app.py line
\* 227) and boolean indexing builds new frames, so it is the frame as it
\* was.
frame_after_filter(frame, filtered) == frame

\* The rendering steps whatever the filter returned.
main_page_always_renders(filtered) ==
  <<"kpi", "charts", "recommendation", "table", "export">>

\* shixiseng.py, lines 514-855, after filter_data returned: the zero
\* state (lines 514-555, ended by return), or the indicators, the charts
\* of the tabs, the recommended postings, the table and the export.
main_page(filtered) ==
  IF Len(filtered) = 0 THEN <<"zero_state">>
  ELSE <<"kpi", "charts", "recommendation", "table", "export">>

\* app.py, lines 259-461, after the filter: the warning and st.stop()
\* (lines 259-261), or the indicators, the charts, the table and the
\* export.
page_tail_app(filtered) ==
  IF filtered = <<>> THEN <<"zero_state", "stop">>
  ELSE <<"kpi", "charts", "table", "export">>

\* ------------------------------------------------------------ the inputs

\* The longest file the model reads, in rows.
MaxRows == 2

\* The most widgets that differ from their defaults in one script run.
MaxActiveAxes == 1

\* The rows a file is made of.  Their cells cover: two digit runs with an
\* odd and an even sum, one run, a zero, no run; a location with '-', a
\* canonical city with 市, a blank and a missing location, a location
\* starting with '-'; education texts that are a level name, that contain
\* one, and a missing one; durations with and without a digit run, and a
\* missing one; descriptions and welfare texts with shared and distinct
\* tags, and missing ones.
RawRows ==
  { [ salary_range |-> Chars("10-13"),
      location     |-> <<"shang", "hai", "-", "pu", "dong">>,
      education    |-> <<"ben", "ke", "ji", "yi3", "shang">>,
      duration     |-> <<"zhi", "shao", "3", "ge", "yue">>,
      description  |-> Chars("Spark SQL"),
      welfare      |-> <<"wu5", "xian3", ",", "shuang", "xiu">> ],
    [ salary_range |-> Chars("14-16") \o <<"yuan", "/", "tian">>,
      location     |-> <<"bei", "jing", "shi_c">>,
      education    |-> BoShi,
      duration     |-> <<"6", "ge", "yue">>,
      description  |-> Chars("spark kafka"),
      welfare      |-> <<"fan", "bu3", " ", "shuang", "xiu">> ],
    [ salary_range |-> Chars("12"),
      location     |-> <<" ", " ">>,
      education    |-> BenKe,
      duration     |-> NA,
      description  |-> Chars("SQL"),
      welfare      |-> <<"can", "bu3">> ],
    [ salary_range |-> Chars("0"),
      location     |-> NA,
      education    |-> NA,
      duration     |-> <<"chang", "qi">>,
      description  |-> NA,
      welfare      |-> NA ],
    [ salary_range |-> <<"mian", "yi4">>,
      location     |-> <<"-", "pu", "dong">>,
      education    |-> DaZhuan,
      duration     |-> <<"3", "ge", "yue">>,
      description  |-> Chars("Kafka"),
      welfare      |-> <<"shuang", "xiu">> ] }

\* The files: the sequences of at most MaxRows rows.
RawFiles == UNION {[1..n -> RawRows] : n \in 0..MaxRows}

\* ------------------------------------------------------------- the state

VARIABLES
  variant,      \* the program that runs: "shixiseng" or "app"
  raw,          \* the rows read_csv returns for the data file
  loaded,       \* whether a script run has loaded the data
  df,           \* the cleaned frame load_and_clean_data returned
  criteria,     \* the widget state the last script run read
  filtered_df,  \* the frame the filter of the last run returned
  outcome,      \* how the last run ended: "none" before the first run,
                \* "returned" (the filter returned filtered_df),
                \* "IndexError" (filter_data raised), "ValueError" (main
                \* raised before the filter), "no_data" (the run was
                \* stopped for want of data)
  text,         \* the cell handed to a field parser on its own
  parsed,       \* what the parser returned for it
  readable,     \* the (path, encoding) pairs pd.read_csv returns for
  tried,        \* the pairs the last execution of the loader's body read
  page,         \* the steps the last script run went through, in order
  welfare_inputs  \* the texts of the three welfare keyword boxes

vars == <<variant, raw, loaded, df, criteria, filtered_df, outcome,
          text, parsed, readable, tried, page, welfare_inputs>>

\* Lines 443-460: the three welfare keyword boxes start empty.
NoInputs == << <<>>, <<>>, <<>> >>

\* No parser has run on text.
NotParsed == [by |-> "none"]

\* The widget state before the first run.
NoCriteria == [none |-> TRUE]

Init ==
  /\ variant \in {"shixiseng", "app"}
  /\ raw \in RawFiles
  \* app.py on a file without data rows is outside the model.
  /\ variant = "app" => raw # <<>>
  /\ loaded = FALSE
  /\ df = <<>>
  /\ criteria = NoCriteria
  /\ filtered_df = <<>>
  /\ outcome = "none"
  /\ text = <<>>
  /\ parsed = NotParsed
  \* The data file is where the script looks for it, or nowhere.
  /\ readable \in {ReadablePairs, {}}
  /\ tried = <<>>
  /\ page = <<>>
  /\ welfare_inputs = NoInputs


\* ------------------------------------------------- shixiseng.py: main()

Min(S) == CHOOSE x \in S : \A y \in S : x <= y
Max(S) == CHOOSE x \in S : \A y \in S : x >= y

\* The values of the avg_salary column that min() and max() see (NaN is
\* skipped).
observed_salaries(frame) ==
  {frame[i].avg_salary : i \in 1..Len(frame)} \ {NaN}

\* The values st.slider offers: from min_value in steps, and max_value.
slider_values(min_value, max_value, step) ==
  {v \in min_value..max_value : (v - min_value) % step = 0} \cup {max_value}

\* The step of the salary slider of shixiseng.py.
SalaryStep == 10

\* Line 401: the options of the city multiselect.
all_cities(frame) == {frame[i].city : i \in 1..Len(frame)}

\* Line 404: education_options.
education_options == {QuanBu, BuXian, DaZhuan, BenKe, ShuoShi, BoShi}

\* Line 407: ['全部'] + the distinct non-missing values of 实习时长.
duration_options(frame) ==
  {QuanBu} \cup ({frame[i].duration : i \in 1..Len(frame)} \ {NA})

\* Line 415: the options of the skill multiselect.
all_skills(frame) ==
  UNION {Range(frame[i].matched_skills) : i \in 1..Len(frame)}

\* Line 424: the known welfare tags, which the welfare boxes resolve to.
all_welfare(frame) ==
  UNION {Range(frame[i].welfare_tags) : i \in 1..Len(frame)}

\* The characters str.split() cuts a box's text at.
Whitespace == {" "}

\* Lines 466-471: the keywords of one box, inp.split() with each piece
\* stripped and the empty ones dropped.
group_keywords(inp) == SplitTokens(inp, Whitespace)

\* Lines 463-473: one keyword list for each box that holds a keyword.
welfare_groups(inputs) ==
  LET HasKeywords(group) == group # <<>>
  IN  SelectSeq([i \in 1..Len(inputs) |-> group_keywords(inputs[i])],
                HasKeywords)

\* A keyword matches a known tag that occurs in it.
keyword_matches_tag_in_keyword(keyword, welfare) ==
  Contains(lower(keyword), lower(welfare))

\* Line 483: a keyword matches a known tag when, in lower case, one of
\* them occurs in the other.
keyword_matches(keyword, welfare) ==
  \/ Contains(lower(welfare), lower(keyword))
  \/ Contains(lower(keyword), lower(welfare))

\* Lines 480-485: the known tags some keyword of the group matches.
group_matches(group, known) ==
  {welfare \in known : \E k \in 1..Len(group) : keyword_matches(group[k], welfare)}

\* Lines 419, 428, 476-495: selected_welfare, the set of the tags of all
\* the groups' matches; without known tags there are no boxes.
selected_welfare(inputs, known) ==
  IF known = {} THEN {}
  ELSE LET groups == welfare_groups(inputs)
       IN  UNION {group_matches(groups[g], known) : g \in 1..Len(groups)}

\* Lines 410-413: the slider's default, (min_salary, max_salary).
default_salary_range(frame) ==
  IF observed_salaries(frame) = {} THEN NoSalary
  ELSE <<Min(observed_salaries(frame)), Max(observed_salaries(frame))>>

\* The widget state of the first run of main(): the defaults.
default_criteria(frame) ==
  [ cities          |-> {},
    education       |-> QuanBu,
    duration        |-> QuanBu,
    salary_range    |-> default_salary_range(frame),
    required_skills |-> {},
    welfare_prefs   |-> {} ]

\* The widgets of c that are off their defaults.
active_axes(c, defaults) == {f \in DOMAIN c : c[f] # defaults[f]}

\* main() from line 398 on the frame and the widget state c.  Line 410,
\* int(df['avg_salary'].min()), raises ValueError when no row has a salary.
main_run(frame, c) ==
  /\ criteria' = c
  /\ IF observed_salaries(frame) = {}
     THEN /\ outcome' = "ValueError"
          /\ filtered_df' = <<>>
          /\ page' = <<"load">>
     ELSE LET out == filter_data(frame, criteria')
          IN  /\ outcome' = IF out.raised THEN "IndexError" ELSE "returned"
              /\ filtered_df' = out.rows
              /\ page' = IF outcome' = "IndexError" THEN <<"load", "sidebar">>
                         ELSE <<"load", "sidebar", "filter">>
                                \o main_page(filtered_df')

\* A run of the script while st.cache_data holds no frame: the body of
\* load_and_clean_data is executed, then the widgets are at their defaults.
\* When pd.read_csv raises, the except clauses (lines 330-338) report the
\* error and stop the run, and nothing is cached.
SxFirstRun ==
  /\ variant = "shixiseng"
  /\ ~loaded
  /\ tried' = << <<DATA_PATH, "utf-8">> >>
  /\ IF <<DATA_PATH, "utf-8">> \in readable
     THEN /\ loaded' = TRUE
          /\ df' = load_and_clean_data(raw)
          /\ main_run(df', default_criteria(df'))
     ELSE /\ loaded' = FALSE
          /\ df' = <<>>
          /\ criteria' = NoCriteria
          /\ filtered_df' = <<>>
          /\ outcome' = "no_data"
          /\ page' = <<"load", "error", "stop">>
  /\ UNCHANGED <<variant, raw, text, parsed, readable, welfare_inputs>>

\* A widget change re-runs the script on the cached frame.
SxRerun(c) ==
  /\ variant = "shixiseng"
  /\ loaded
  /\ c # criteria
  /\ Cardinality(active_axes(c, default_criteria(df))) <= MaxActiveAxes
  /\ main_run(df, c)
  /\ df' = IF outcome' = "returned" THEN frame_after_filter(df, filtered_df')
           ELSE df
  /\ UNCHANGED <<variant, raw, loaded, text, parsed, readable, tried,
               welfare_inputs>>

\* A change of a welfare box re-runs the script on the cached frame: the
\* boxes are resolved to known tags, which go to the filter (line 510).
SxWelfareRerun(inputs) ==
  /\ variant = "shixiseng"
  /\ loaded
  /\ inputs # welfare_inputs
  /\ \E resolved \in {selected_welfare(inputs, all_welfare(df))} :
       LET c == [criteria EXCEPT !.welfare_prefs = resolved]
       IN  /\ Cardinality(active_axes(c, default_criteria(df)))
                <= MaxActiveAxes
           /\ welfare_inputs' = inputs
           /\ main_run(df, c)
  /\ df' = IF outcome' = "returned" THEN frame_after_filter(df, filtered_df')
           ELSE df
  /\ UNCHANGED <<variant, raw, loaded, text, parsed, readable, tried>>

\* The widgets below line 410 exist only when that line did not raise.
SxSidebarComplete == outcome # "ValueError"

SxSetCities ==
  /\ variant = "shixiseng" /\ loaded
  /\ \E S \in SUBSET all_cities(df) : SxRerun([criteria EXCEPT !.cities = S])

SxSetEducation ==
  /\ variant = "shixiseng" /\ loaded
  /\ \E e \in education_options : SxRerun([criteria EXCEPT !.education = e])

SxSetDuration ==
  /\ variant = "shixiseng" /\ loaded
  /\ \E d \in duration_options(df) : SxRerun([criteria EXCEPT !.duration = d])

SxSetSalary ==
  /\ variant = "shixiseng" /\ loaded /\ SxSidebarComplete
  /\ LET r == default_salary_range(df)
     IN  \E lo, hi \in slider_values(r[1], r[2], SalaryStep) :
           /\ lo <= hi
           /\ SxRerun([criteria EXCEPT !.salary_range = <<lo, hi>>])

SxSetSkills ==
  /\ variant = "shixiseng" /\ loaded /\ SxSidebarComplete
  /\ \E S \in SUBSET all_skills(df) :
       SxRerun([criteria EXCEPT !.required_skills = S])

\* The elements of a set, one after the other.
RECURSIVE InSomeOrder(_)
InSomeOrder(S) ==
  IF S = {} THEN <<>>
  ELSE LET x == CHOOSE y \in S : TRUE
       IN  <<x>> \o InSomeOrder(S \ {x})

\* The pieces with sep between them.
RECURSIVE join(_, _)
join(pieces, sep) ==
  IF pieces = <<>> THEN <<>>
  ELSE IF Len(pieces) = 1 THEN Head(pieces)
  ELSE Head(pieces) \o sep \o join(Tail(pieces), sep)

\* The first box holding some of the known tags, written as they are
\* known, and the other boxes empty.
WholeTagInputs(known) ==
  {<< join(InSomeOrder(S), <<" ">>), <<>>, <<>> >> : S \in SUBSET known}

\* The user asks for known tags by their names.
SxSetWelfare ==
  /\ variant = "shixiseng" /\ loaded /\ SxSidebarComplete
  /\ \E inputs \in WholeTagInputs(all_welfare(df)) : SxWelfareRerun(inputs)


\* ------------------------------------------------- app.py: the page script

\* Lines 182, 197, 205, 210, 218: the options of the multiselects.  (The
\* welfare options are the first 20 tags and the default city selection
\* the first 10 cities; the files of the model hold fewer.)
all_edu(frame)       == {frame[i].education_class : i \in 1..Len(frame)}
all_durations(frame) == {frame[i].duration_class : i \in 1..Len(frame)}
unique_skills(frame) == UNION {Range(frame[i].skill_tags) : i \in 1..Len(frame)}
unique_welfare(frame) ==
  UNION {Range(frame[i].welfare_tags) : i \in 1..Len(frame)}

\* The widget state of the first run of app.py: the defaults.
default_criteria_app(frame) ==
  [ selected_cities    |-> all_cities(frame),
    salary_range       |-> default_salary_range(frame),
    selected_edu       |-> all_edu(frame),
    selected_skills    |-> {},
    selected_durations |-> all_durations(frame),
    selected_welfare   |-> {} ]

\* The script from line 171 on the frame and the widget state c: it stops
\* at line 172 on an empty frame, else it filters (lines 227-251).
page_run(frame, c) ==
  IF frame = <<>>
  THEN /\ outcome' = "no_data"
       /\ criteria' = NoCriteria
       /\ filtered_df' = <<>>
       /\ page' = <<"load", "stop">>
  ELSE /\ outcome' = "returned"
       /\ criteria' = c
       /\ filtered_df' = filtered_df_app(frame, c)
       /\ page' = <<"load", "sidebar", "filter">> \o page_tail_app(filtered_df')

\* The first run of the script: the body of load_and_clean_data is
\* executed and st.cache_data keeps what it returns (None too).  Without
\* a frame (lines 75-78) the error is reported and line 172 stops the run.
AppFirstRun ==
  /\ variant = "app"
  /\ ~loaded
  /\ loaded' = TRUE
  /\ LET read == read_csv_app(readable)
     IN  /\ tried' = read.attempts
         /\ IF read.found
            THEN /\ df' = load_and_clean_data_app(raw)
                 /\ page_run(df', default_criteria_app(df'))
            ELSE /\ df' = <<>>
                 /\ criteria' = NoCriteria
                 /\ filtered_df' = <<>>
                 /\ outcome' = "no_data"
                 /\ page' = <<"load", "error", "stop">>
  /\ UNCHANGED <<variant, raw, text, parsed, readable, welfare_inputs>>

AppRerun(c) ==
  /\ c # criteria
  /\ Cardinality(active_axes(c, default_criteria_app(df))) <= MaxActiveAxes
  /\ page_run(df, c)
  /\ df' = IF outcome' = "returned" THEN frame_after_filter(df, filtered_df')
           ELSE df
  /\ UNCHANGED <<variant, raw, loaded, text, parsed, readable, tried,
               welfare_inputs>>

\* The sidebar exists once a run went past line 172.
AppSidebar == variant = "app" /\ loaded /\ outcome = "returned"

AppSetCities ==
  /\ AppSidebar
  /\ \E S \in SUBSET all_cities(df) :
       AppRerun([criteria EXCEPT !.selected_cities = S])

AppSetSalary ==
  /\ AppSidebar
  /\ LET r == default_salary_range(df)
     IN  \E lo, hi \in slider_values(r[1], r[2], 1) :
           /\ lo <= hi
           /\ AppRerun([criteria EXCEPT !.salary_range = <<lo, hi>>])

AppSetEdu ==
  /\ AppSidebar
  /\ \E S \in SUBSET all_edu(df) :
       AppRerun([criteria EXCEPT !.selected_edu = S])

AppSetSkills ==
  /\ AppSidebar
  /\ \E S \in SUBSET unique_skills(df) :
       AppRerun([criteria EXCEPT !.selected_skills = S])

AppSetDurations ==
  /\ AppSidebar
  /\ \E S \in SUBSET all_durations(df) :
       AppRerun([criteria EXCEPT !.selected_durations = S])

AppSetWelfare ==
  /\ AppSidebar
  /\ \E S \in SUBSET unique_welfare(df) :
       AppRerun([criteria EXCEPT !.selected_welfare = S])

\* ------------------------------------------------------ the specification

Next ==
  \/ SxFirstRun
  \/ SxSetCities
  \/ SxSetEducation
  \/ SxSetDuration
  \/ SxSetSalary
  \/ SxSetSkills
  \/ SxSetWelfare
  \/ AppFirstRun
  \/ AppSetCities
  \/ AppSetSalary
  \/ AppSetEdu
  \/ AppSetSkills
  \/ AppSetDurations
  \/ AppSetWelfare

Spec == Init /\ [][Next]_vars

\* The data file is rewritten between two script runs.  @st.cache_data
\* (shixiseng.py line 200, app.py line 49) keys the cached frame on the
\* arguments of load_and_clean_data, the path string in shixiseng.py and
\* nothing in app.py: the rewrite touches neither loaded nor df.
SourceChanges ==
  /\ readable # {}
  /\ raw' \in RawFiles \ {raw}
  /\ variant = "app" => raw' # <<>>
  /\ UNCHANGED <<variant, loaded, df, criteria, filtered_df, outcome,
                 text, parsed, readable, tried, page,
               welfare_inputs>>

NextCache ==
  \/ Next
  \/ SourceChanges

\* The script runs of one process, with rewrites of the data file.
SpecCache == Init /\ [][NextCache]_vars

\* The first run of either script on a file of one row, where pd.read_csv
\* returns for any set of the pairs app.py asks for, and for the one pair
\* of shixiseng.py or not.
LoadFiles == {f \in RawFiles : Len(f) = 1}

InitLoad ==
  /\ \/ variant = "app" /\ readable \in SUBSET ReadablePairs
     \/ variant = "shixiseng" /\ readable \in {{}, {<<DATA_PATH, "utf-8">>}}
  /\ raw \in LoadFiles
  /\ loaded = FALSE
  /\ df = <<>>
  /\ criteria = NoCriteria
  /\ filtered_df = <<>>
  /\ outcome = "none"
  /\ text = <<>>
  /\ parsed = NotParsed
  /\ tried = <<>>
  /\ page = <<>>
  /\ welfare_inputs = NoInputs

NextLoad ==
  \/ SxFirstRun
  \/ AppFirstRun

SpecLoad == InitLoad /\ [][NextLoad]_vars

\* The first run of app.py on files whose rows differ in the two cells the
\* validity test of line 163 depends on: a salary above zero, of zero and
\* without a digit run; a location that is missing, blank, starts with
\* '-', has a district, and is a city.
CleanRows ==
  { [ salary_range |-> s,
      location     |-> l,
      education    |-> BenKe,
      duration     |-> <<"3", "ge", "yue">>,
      description  |-> Chars("SQL"),
      welfare      |-> CanBu ] :
      s \in {Chars("12"), Chars("0"), <<"mian", "yi4">>},
      l \in {NA, <<" ", " ">>, <<"-", "pu", "dong">>,
             <<"shang", "hai", "-", "pu", "dong">>, <<"bei", "jing", "shi_c">>} }

CleanFiles == UNION {[1..n -> CleanRows] : n \in 1..MaxRows}

InitClean ==
  /\ variant = "app"
  /\ readable = ReadablePairs
  /\ raw \in CleanFiles
  /\ loaded = FALSE
  /\ df = <<>>
  /\ criteria = NoCriteria
  /\ filtered_df = <<>>
  /\ outcome = "none"
  /\ text = <<>>
  /\ parsed = NotParsed
  /\ tried = <<>>
  /\ page = <<>>
  /\ welfare_inputs = NoInputs

NextClean ==
  \/ AppFirstRun

SpecClean == InitClean /\ [][NextClean]_vars


\* ------------------------------------------ the welfare boxes on their own

\* The most keywords the three boxes hold together.
MaxKeywords == 2

\* Postings with a salary and three welfare cells: two synonyms, a tag of
\* the table with a tag in Latin letters, and one tag of the table.
KeywordRows ==
  { [ salary_range |-> Chars("12"),
      location     |-> <<"shang", "hai", "-", "pu", "dong">>,
      education    |-> BenKe,
      duration     |-> <<"3", "ge", "yue">>,
      description  |-> Chars("SQL"),
      welfare      |-> w ] :
      w \in {<<"wu5", "xian3", ",", "shuang", "xiu">>,
             CanBu \o <<" ">> \o Chars("Gym"),
             FangBu} }

KeywordFiles == [1..2 -> KeywordRows]

\* Keywords: a known tag in another case, a text that a known tag is part
\* of, and a part of two known tags.
Keywords == {Chars("gym"), <<"can", "bu3", "tie">>, <<"bu3">>}

\* What a box can hold: nothing, or keywords with blanks between.
KeywordBoxes ==
  {<<>>}
    \cup {join(ks, <<" ">>) :
            ks \in UNION {[1..n -> Keywords] : n \in 1..MaxKeywords}}

\* The number of keywords in the three boxes.
KeywordCount(inputs) ==
  Len(group_keywords(inputs[1])) + Len(group_keywords(inputs[2]))
    + Len(group_keywords(inputs[3]))

InitKeywords ==
  /\ variant = "shixiseng"
  /\ readable = {<<DATA_PATH, "utf-8">>}
  /\ raw \in KeywordFiles
  /\ loaded = FALSE
  /\ df = <<>>
  /\ criteria = NoCriteria
  /\ filtered_df = <<>>
  /\ outcome = "none"
  /\ text = <<>>
  /\ parsed = NotParsed
  /\ tried = <<>>
  /\ page = <<>>
  /\ welfare_inputs = NoInputs

\* The user edits one of the three boxes.
SxTypeWelfare ==
  /\ variant = "shixiseng" /\ loaded /\ SxSidebarComplete
  /\ all_welfare(df) # {}
  /\ \E b \in 1..3, inp \in KeywordBoxes :
       LET inputs == [welfare_inputs EXCEPT ![b] = inp]
       IN  /\ KeywordCount(inputs) <= MaxKeywords
           /\ SxWelfareRerun(inputs)

NextKeywords ==
  \/ SxFirstRun
  \/ SxTypeWelfare

SpecKeywords == InitKeywords /\ [][NextKeywords]_vars


\* ------------------------------------------- the field parsers on their own

\* The longest text handed to a parser, in characters.
MaxLen == 5

\* The texts of at most n characters over an alphabet.
Texts(alphabet, n) == UNION {[1..k -> alphabet] : k \in 1..n}

\* Salary cells: digit runs of one or more digits (with leading zeros),
\* separated by '-' and the unit 元; and the missing cell.
SalaryTexts == Texts({"0", "1", "2", "-", "yuan"}, MaxLen) \cup {NA}

InitParse ==
  /\ text \in SalaryTexts
  /\ parsed = NotParsed
  /\ variant = "none"
  /\ raw = <<>>
  /\ loaded = FALSE
  /\ df = <<>>
  /\ criteria = NoCriteria
  /\ filtered_df = <<>>
  /\ outcome = "none"
  /\ readable = {}
  /\ tried = <<>>
  /\ page = <<>>
  /\ welfare_inputs = NoInputs

\* app.py, lines 100-102, on one cell of 薪资范围.
ParseSalary ==
  /\ parsed = NotParsed
  /\ LET bounds == parse_salary(text)
     IN  parsed' = [ by         |-> "parse_salary",
                     min_salary |-> bounds[1],
                     max_salary |-> bounds[2],
                     avg_salary |-> average_salary(bounds) ]
  /\ UNCHANGED <<variant, raw, loaded, df, criteria, filtered_df, outcome, text,
               readable, tried, page,
               welfare_inputs>>

\* shixiseng.py, line 217, on one cell of 薪资范围.
ExtractAvgSalary ==
  /\ parsed = NotParsed
  /\ parsed' = [ by         |-> "extract_avg_salary",
                 avg_salary |-> extract_avg_salary(text) ]
  /\ UNCHANGED <<variant, raw, loaded, df, criteria, filtered_df, outcome, text,
               readable, tried, page,
               welfare_inputs>>

NextParse ==
  \/ ParseSalary
  \/ ExtractAvgSalary

SpecParse == InitParse /\ [][NextParse]_vars


\* The most fragments a generated cell is made of.
MaxPieces == 3

\* The cells made of one to n fragments, written one after the other.
RECURSIVE Flatten(_)
Flatten(pieces) ==
  IF pieces = <<>> THEN <<>> ELSE Head(pieces) \o Flatten(Tail(pieces))

Pieces(fragments, n) ==
  {Flatten(f) : f \in UNION {[1..k -> fragments] : k \in 1..n}}

\* No script runs while a parser is looked at on its own.
NoScript ==
  /\ variant = "none"
  /\ raw = <<>>
  /\ loaded = FALSE
  /\ df = <<>>
  /\ criteria = NoCriteria
  /\ filtered_df = <<>>
  /\ outcome = "none"
  /\ readable = {}
  /\ tried = <<>>
  /\ page = <<>>
  /\ welfare_inputs = NoInputs

\* Welfare cells: tags that are keys of the synonym table (with two keys of
\* one canonical tag), a canonical tag, a tag the table does not know, and
\* three separators; the cell of the documentation's example; the missing
\* cell.
WelfareFragments ==
  { <<"wu5", "xian3">>, <<"shuang", "xiu">>, <<"zhou1", "mo">>, CanBu,
    <<"fan", "bu3">>, <<"nian", "jia">>, <<",">>, <<"dun">>, <<" ">> }

WelfareExample ==
  <<"wu5", "xian3", ",", "shuang", "xiu", ",", "can", "bu3">>

WelfareTexts ==
  Pieces(WelfareFragments, MaxPieces) \cup {WelfareExample, NA}

InitWelfare ==
  /\ text \in WelfareTexts
  /\ parsed = NotParsed
  /\ NoScript

\* shixiseng.py, line 321, on one cell of 福利待遇.
ExtractWelfareTags ==
  /\ parsed = NotParsed
  /\ parsed' = [by |-> "extract_welfare_tags", tags |-> extract_welfare_tags(text)]
  /\ UNCHANGED <<variant, raw, loaded, df, criteria, filtered_df, outcome, text,
               readable, tried, page,
               welfare_inputs>>

\* app.py, line 160, on one cell of 福利待遇.
ExtractWelfare ==
  /\ parsed = NotParsed
  /\ parsed' = [by |-> "extract_welfare", tags |-> extract_welfare(text)]
  /\ UNCHANGED <<variant, raw, loaded, df, criteria, filtered_df, outcome, text,
               readable, tried, page,
               welfare_inputs>>

NextWelfare ==
  \/ ExtractWelfareTags
  \/ ExtractWelfare

SpecWelfare == InitWelfare /\ [][NextWelfare]_vars


\* Welfare cells as above, and a key whose canonical tag is no key itself.
NormalizedFragments ==
  WelfareFragments \cup {<<"tuan", "jian">>, <<"huo", "dong4">>}

NormalizedTexts ==
  Pieces(NormalizedFragments, MaxPieces) \cup {WelfareExample, NA}

InitNormalized ==
  /\ text \in NormalizedTexts
  /\ parsed = NotParsed
  /\ NoScript

\* extract_welfare_tags on the tags it returned, written as a cell with
\* commas between them.
ExtractWelfareTagsAgain ==
  /\ parsed.by = "extract_welfare_tags"
  /\ LET joined == join(parsed.tags, <<",">>)
     IN  parsed' = [by     |-> "extract_welfare_tags_again",
                    first  |-> parsed.tags,
                    joined |-> joined,
                    tags   |-> extract_welfare_tags(joined)]
  /\ UNCHANGED <<variant, raw, loaded, df, criteria, filtered_df, outcome, text,
               readable, tried, page, welfare_inputs>>

NextNormalized ==
  \/ ExtractWelfareTags
  \/ ExtractWelfareTagsAgain

SpecNormalized == InitNormalized /\ [][NextNormalized]_vars


\* Descriptions: keywords in another case, a keyword that only appears
\* across two fragments (My + SQL) and holds another (SQL in MySQL),
\* Chinese keywords with a shared prefix, a blank; the missing cell.
DescriptionFragments ==
  { Chars("My"), Chars("SQL"), Chars("sql"), Chars("spark"), <<" ">>,
    <<"shu", "ju">>, <<"cang", "ku">>, <<"hu">> }

DescriptionTexts == Pieces(DescriptionFragments, MaxPieces) \cup {NA}

InitSkills ==
  /\ text \in DescriptionTexts
  /\ parsed = NotParsed
  /\ NoScript

\* shixiseng.py, line 292, on one cell of 职位描述.
ExtractSkills ==
  /\ parsed = NotParsed
  /\ parsed' = [by |-> "extract_skills", tags |-> extract_skills(text)]
  /\ UNCHANGED <<variant, raw, loaded, df, criteria, filtered_df, outcome, text,
               readable, tried, page,
               welfare_inputs>>

\* app.py, line 121, on one cell of 职位描述.
ExtractSkillsApp ==
  /\ parsed = NotParsed
  /\ parsed' = [by |-> "extract_skills_app", tags |-> extract_skills_app(text)]
  /\ UNCHANGED <<variant, raw, loaded, df, criteria, filtered_df, outcome, text,
               readable, tried, page,
               welfare_inputs>>

NextSkills ==
  \/ ExtractSkills
  \/ ExtractSkillsApp

SpecSkills == InitSkills /\ [][NextSkills]_vars


\* Education cells: the keywords of the four families, two qualifiers, and
\* two single characters that make a keyword only together (博 + 士); the
\* missing cell.
EducationFragments ==
  { BoShi, ShuoShi, <<"yan", "jiu", "sheng">>, BenKe, <<"xue", "shi">>,
    DaZhuan, <<"zhuan", "ke">>, <<"quan", "ri", "zhi4">>,
    <<"ji", "yi3", "shang">>, <<"bo">>, <<"shi">> }

EducationTexts == Pieces(EducationFragments, MaxPieces) \cup {NA}

InitEducation ==
  /\ text \in EducationTexts
  /\ parsed = NotParsed
  /\ NoScript

\* app.py, line 137, on one cell of 学历要求.
StandardizeEducation ==
  /\ parsed = NotParsed
  /\ parsed' = [by |-> "standardize_education",
                level |-> standardize_education(text)]
  /\ UNCHANGED <<variant, raw, loaded, df, criteria, filtered_df, outcome, text,
               readable, tried, page,
               welfare_inputs>>

NextEducation ==
  \/ StandardizeEducation

SpecEducation == InitEducation /\ [][NextEducation]_vars


\* Location cells: three cities of the table, the suffix 市, the two
\* separators of app.py, a district, a blank, and two characters that make
\* a city only together (广 + 州); the documentation's example; the missing
\* cell.
LocationFragments ==
  { <<"shang", "hai">>, <<"bei", "jing">>, <<"nan", "jing">>, <<"shi_c">>,
    <<"-">>, <<"dot">>, <<"pu", "dong">>, <<" ">>, <<"guang">>, <<"zhou">> }

LocationExample == <<"shang", "hai", "-", "pu", "dong", "xin", "qu">>

LocationTexts ==
  Pieces(LocationFragments, MaxPieces) \cup {LocationExample, NA}

InitCity ==
  /\ text \in LocationTexts
  /\ parsed = NotParsed
  /\ NoScript

\* shixiseng.py, line 275, on one cell of 工作地点.
ExtractCity ==
  /\ parsed = NotParsed
  /\ parsed' = [by |-> "extract_city", city |-> extract_city(text)]
  /\ UNCHANGED <<variant, raw, loaded, df, criteria, filtered_df, outcome, text,
               readable, tried, page,
               welfare_inputs>>

\* app.py, lines 105-107, on one cell of 工作地点.
CityOfLocation ==
  /\ parsed = NotParsed
  /\ parsed' = [by |-> "city_of_location", city |-> city_of_location(text)]
  /\ UNCHANGED <<variant, raw, loaded, df, criteria, filtered_df, outcome, text,
               readable, tried, page,
               welfare_inputs>>

NextCity ==
  \/ ExtractCity
  \/ CityOfLocation

SpecCity == InitCity /\ [][NextCity]_vars


\* Duration cells: digits, the unit with and without 个, the two keywords
\* of the long-term class, a qualifier, a range sign, and two characters
\* that make a keyword only together (长 + 期); the missing cell.
DurationFragments ==
  { <<"3">>, <<"6">>, <<"1">>, <<"ge", "yue">>, <<"yue">>,
    <<"chang", "qi">>, <<"ling", "huo">>, <<"zhi", "shao">>, <<"-">>,
    <<"chang">>, <<"qi">> }

DurationTexts == Pieces(DurationFragments, MaxPieces) \cup {NA}

InitDuration ==
  /\ text \in DurationTexts
  /\ parsed = NotParsed
  /\ NoScript

\* app.py, line 151, on one cell of 实习时长.
ClassifyDuration ==
  /\ parsed = NotParsed
  /\ parsed' = [by |-> "classify_duration", category |-> classify_duration(text)]
  /\ UNCHANGED <<variant, raw, loaded, df, criteria, filtered_df, outcome, text,
               readable, tried, page,
               welfare_inputs>>

\* shixiseng.py, lines 239 and 249, on one cell of 实习时长: the cell is
\* cleaned, and the month count is taken from the cleaned cell.
ExtractDurationMonths ==
  /\ parsed = NotParsed
  /\ parsed' = [by |-> "extract_duration_months",
                months |-> extract_duration_months(clean_duration(text))]
  /\ UNCHANGED <<variant, raw, loaded, df, criteria, filtered_df, outcome, text,
               readable, tried, page,
               welfare_inputs>>

NextDuration ==
  \/ ClassifyDuration
  \/ ExtractDurationMonths

SpecDuration == InitDuration /\ [][NextDuration]_vars


\* ---------------------------------------------------------------- claims

Sx       == variant = "shixiseng"
App      == variant = "app"
Returned == outcome = "returned"

\* The rows of frame that satisfy the test, in order (a frame is a sequence).
Rows(frame) == {frame[i] : i \in 1..Len(frame)}

\* s is a subsequence of t: its elements are elements of t at strictly
\* increasing positions.
IsSubsequence(s, t) ==
  \E f \in [1..Len(s) -> 1..Len(t)] :
    /\ \A i, j \in 1..Len(s) : i < j => f[i] < f[j]
    /\ \A i \in 1..Len(s) : t[f[i]] = s[i]

\* The defaults of the widgets of the program that runs.
Defaults ==
  IF Sx THEN default_criteria(df) ELSE default_criteria_app(df)

\* The filter of the program that runs, on the widget state c.
FilterRows(c) ==
  IF Sx THEN filter_data(df, c).rows ELSE filtered_df_app(df, c)

\* C1: whenever the filter returns, what it returns is a subsequence of the
\* cleaned frame: postings of the input, none twice, in the input's order.
C1_FilterReturnsSubsequence ==
  Returned => IsSubsequence(filtered_df, df)

\* C1 happens: the filter kept some rows of a frame and dropped others.
C1_Witness ==
  /\ Returned
  /\ Len(filtered_df) >= 1
  /\ Len(filtered_df) < Len(df)
  /\ criteria # Defaults

\* C2: main()'s first run (every widget at its default, the salary range at
\* [min, max] of the observed avg_salary) returns the whole cleaned frame.
C2_IdentityLaw ==
  (Sx /\ Returned /\ criteria = default_criteria(df)) => filtered_df = df

\* C3: filter_data never raises on a widget state the sidebar can supply.
C3_FilterIsTotal == outcome # "IndexError"

\* C4: every row of the cleaned frame has avg_salary > 0 and a non-empty
\* city, in both programs.
C4_CleanedRowsAreValid ==
  loaded => \A r \in Rows(df) : r.avg_salary > 0 /\ r.city # <<>>

\* Python's round(s / 2) for an int s >= 0 (a half rounds to the even side).
round_half(s) ==
  IF s % 2 = 0 THEN s \div 2
  ELSE IF ((s - 1) \div 2) % 2 = 0 THEN (s - 1) \div 2
  ELSE (s + 1) \div 2

\* The digit runs of the parsed cell (none for a missing cell).
RunsOfText == IF isna(text) THEN <<>> ELSE findall_digits(text)

\* What C5 says of one run: min = max = avg = the run.
C5_OneRun ==
  Len(RunsOfText) = 1 =>
    /\ parsed.avg_salary = int(RunsOfText[1])
    /\ parsed.by = "parse_salary" =>
         /\ parsed.min_salary = int(RunsOfText[1])
         /\ parsed.max_salary = int(RunsOfText[1])

\* C5 as stated: with two or more runs, avg_salary = round((a + b) / 2) of
\* the first two runs; with one run, min = max = avg = the run.
C5_AverageIsRounded ==
  parsed # NotParsed =>
    /\ Len(RunsOfText) >= 2 =>
         parsed.avg_salary = round_half(int(RunsOfText[1]) + int(RunsOfText[2]))
    /\ C5_OneRun

\* C5 amended: with two or more runs, avg_salary is (a + b) / 2 of the
\* first two runs rounded down (min = a and max = b in app.py); with one
\* run, min = max = avg = the run.
C5_AverageIsFloored ==
  parsed # NotParsed =>
    /\ Len(RunsOfText) >= 2 =>
         LET a == int(RunsOfText[1])
             b == int(RunsOfText[2])
         IN  /\ 2 * parsed.avg_salary <= a + b
             /\ a + b <= 2 * parsed.avg_salary + 1
             /\ parsed.by = "parse_salary" =>
                  parsed.min_salary = a /\ parsed.max_salary = b
    /\ C5_OneRun

\* C5 happens: a text of three runs, the first two of an odd sum and the
\* third another number, was parsed.
C5_Witness ==
  /\ parsed # NotParsed
  /\ parsed.by = "parse_salary"
  /\ Len(RunsOfText) = 3
  /\ (int(RunsOfText[1]) + int(RunsOfText[2])) % 2 = 1
  /\ int(RunsOfText[3]) # int(RunsOfText[2])

\* The city selection of the widget state.
SelectedCities(c) == IF Sx THEN c.cities ELSE c.selected_cities

WithCities(c, S) ==
  IF Sx THEN [c EXCEPT !.cities = S] ELSE [c EXCEPT !.selected_cities = S]

\* C6: an empty city selection returns what selecting every city returns;
\* a non-empty one keeps, of the rows the other criteria keep, exactly
\* those whose city is selected.
C6_CityMembership ==
  Returned =>
    IF SelectedCities(criteria) = {}
    THEN filtered_df = FilterRows(WithCities(criteria, all_cities(df)))
    ELSE LET chosen(r) == r.city \in SelectedCities(criteria)
         IN  filtered_df = SelectSeq(FilterRows(WithCities(criteria, {})), chosen)

\* C6 happens: a non-empty city selection kept a row and the frame holds a
\* row of a city that is not selected.
C6_Witness ==
  /\ Returned
  /\ SelectedCities(criteria) # {}
  /\ Len(filtered_df) >= 1
  /\ \E r \in Rows(df) : r.city \notin SelectedCities(criteria)

\* The place of a level in 不限 < 大专 < 本科 < 硕士 < 博士.
education_rank(level) ==
  CASE level = BuXian  -> 0
    [] level = DaZhuan -> 1
    [] level = BenKe   -> 2
    [] level = ShuoShi -> 3
    [] level = BoShi   -> 4

\* C7: selecting level L in filter_data keeps, of the rows the other
\* criteria keep, exactly those whose education text parses to L or higher.
C7_EducationThreshold ==
  (Sx /\ Returned /\ criteria.education # QuanBu) =>
    LET admitted(r) ==
          education_rank(standardize_education(r.education))
            >= education_rank(criteria.education)
    IN  filtered_df =
          SelectSeq(filter_data(df, [criteria EXCEPT !.education = QuanBu]).rows,
                    admitted)

\* C8: a minimum of n months keeps, of the rows the other criteria keep,
\* exactly those whose duration_months is present and >= n; with '全部' and
\* the other widgets at their defaults no row is dropped for its duration.
C8_DurationThreshold ==
  (Sx /\ Returned) =>
    IF criteria.duration # QuanBu
    THEN LET n == int(findall_digits(criteria.duration)[1])
             long_enough(r) == r.duration_months # NaN /\ r.duration_months >= n
         IN  filtered_df =
               SelectSeq(filter_data(df, [criteria EXCEPT !.duration = QuanBu]).rows,
                         long_enough)
    ELSE criteria = default_criteria(df) =>
           \A r \in Rows(df) : r.avg_salary # NaN => r \in Rows(filtered_df)

\* C8 happens: a minimum kept a row of exactly that many months and dropped
\* a row without duration_months that the other criteria keep.
C8_Witness ==
  /\ Sx /\ Returned
  /\ criteria.duration # QuanBu
  /\ \E r \in Rows(filtered_df) :
       r.duration_months = int(findall_digits(criteria.duration)[1])
  /\ \E r \in Rows(filter_data(df, [criteria EXCEPT !.duration = QuanBu]).rows) :
       r.duration_months = NaN

\* low <= avg_salary <= high for the range of the widget state.
InSalaryRange(r) ==
  /\ r.avg_salary # NaN
  /\ criteria.salary_range[1] <= r.avg_salary
  /\ r.avg_salary <= criteria.salary_range[2]

\* C9: every returned row has low <= avg_salary <= high, whatever the other
\* criteria are; with the other widgets at their defaults the rows returned
\* are exactly those in the range, its two ends included.
C9_SalaryRange ==
  Returned =>
    /\ \A r \in Rows(filtered_df) : InSalaryRange(r)
    /\ active_axes(criteria, Defaults) \subseteq {"salary_range"} =>
         filtered_df = SelectSeq(df, InSalaryRange)

\* C9 happens: a narrowed range kept a row at its lower end and dropped a
\* row with a salary outside it.
C9_Witness ==
  /\ Returned
  /\ criteria.salary_range # Defaults.salary_range
  /\ \E r \in Rows(filtered_df) : r.avg_salary = criteria.salary_range[1]
  /\ \E r \in Rows(df) : r.avg_salary # NaN /\ ~InSalaryRange(r)

\* The required skills of the widget state, and the skill tags of a row.
RequiredSkills(c) == IF Sx THEN c.required_skills ELSE c.selected_skills

WithoutSkills(c) ==
  IF Sx THEN [c EXCEPT !.required_skills = {}]
  ELSE [c EXCEPT !.selected_skills = {}]

SkillTags(r) == IF Sx THEN Range(r.matched_skills) ELSE Range(r.skill_tags)

\* C10: a non-empty required set S keeps, of the rows the other criteria
\* keep, exactly those whose skill tags include all of S; a row tagged
\* {Spark, SQL} passes {Spark} and {Spark, SQL} and fails {Spark, Kafka}.
C10_RequiredSkills ==
  /\ Returned /\ RequiredSkills(criteria) # {} =>
       LET has_all(r) == RequiredSkills(criteria) \subseteq SkillTags(r)
       IN  filtered_df = SelectSeq(FilterRows(WithoutSkills(criteria)), has_all)
  /\ LET Spark == Chars("Spark")
         SQL   == Chars("SQL")
         Kafka == Chars("Kafka")
     IN  /\ has_required_skills(<<Spark, SQL>>, {Spark})
         /\ has_required_skills(<<Spark, SQL>>, {Spark, SQL})
         /\ ~has_required_skills(<<Spark, SQL>>, {Spark, Kafka})

\* C10 happens: two skills were required, a row with both was kept and a
\* row with only one of them was dropped.
C10_Witness ==
  /\ Returned
  /\ Cardinality(RequiredSkills(criteria)) = 2
  /\ Len(filtered_df) >= 1
  /\ \E r \in Rows(FilterRows(WithoutSkills(criteria))) :
       /\ SkillTags(r) \cap RequiredSkills(criteria) # {}
       /\ ~(RequiredSkills(criteria) \subseteq SkillTags(r))

\* The welfare preference of the widget state.
WelfarePrefs(c) == IF Sx THEN c.welfare_prefs ELSE c.selected_welfare

WithoutWelfare(c) ==
  IF Sx THEN [c EXCEPT !.welfare_prefs = {}]
  ELSE [c EXCEPT !.selected_welfare = {}]

\* The welfare stage of the program that runs, on its own.
WelfareStage(frame, prefs) ==
  IF Sx THEN filter_welfare(frame, prefs) ELSE filter_welfare_app(frame, prefs)

\* C11: a non-empty welfare preference W keeps, of the rows the other
\* criteria keep, exactly those whose welfare tags hold every tag of W in
\* filter_data (AND) and at least one tag of W in app.py (OR); an empty
\* preference drops no row.
C11_WelfarePredicate ==
  /\ Returned /\ WelfarePrefs(criteria) # {} =>
       LET tags(r) == Range(r.welfare_tags)
           passes(r) ==
             IF Sx THEN WelfarePrefs(criteria) \subseteq tags(r)
             ELSE WelfarePrefs(criteria) \cap tags(r) # {}
       IN  filtered_df = SelectSeq(FilterRows(WithoutWelfare(criteria)), passes)
  /\ loaded => WelfareStage(df, {}) = df

\* C11 happens: two tags were preferred, some row was kept, and a row the
\* other criteria keep has exactly one of the two (dropped by AND, kept by
\* OR).
C11_Witness ==
  /\ Returned
  /\ Cardinality(WelfarePrefs(criteria)) = 2
  /\ Len(filtered_df) >= 1
  /\ \E r \in Rows(FilterRows(WithoutWelfare(criteria))) :
       Cardinality(Range(r.welfare_tags) \cap WelfarePrefs(criteria)) = 1

\* The tokens of the parsed welfare cell: its maximal runs of characters
\* that are no separator (none for a missing cell).
WelfareTokens ==
  IF isna(text) THEN <<>> ELSE SplitTokens(text, WelfareSeparators)

\* The canonical tag of a token: the synonym table's value, or the token.
Canonical(token) ==
  IF \E k \in DOMAIN welfare_mapping : welfare_mapping[k][1] = token
  THEN welfare_mapping[CHOOSE k \in DOMAIN welfare_mapping :
                         welfare_mapping[k][1] = token][2]
  ELSE token

\* Where a canonical tag occurs first among the tokens.
FirstToken(tag) ==
  CHOOSE i \in 1..Len(WelfareTokens) :
    /\ Canonical(WelfareTokens[i]) = tag
    /\ \A j \in 1..(i - 1) : Canonical(WelfareTokens[j]) # tag

\* The tag list holds the canonical tags of the tokens, each once, in the
\* order of their first occurrence.
IsCanonicalTagList(tags) ==
  /\ \A i, j \in 1..Len(tags) : i # j => tags[i] # tags[j]
  /\ Range(tags) = {Canonical(WelfareTokens[i]) : i \in 1..Len(WelfareTokens)}
  /\ \A i, j \in 1..Len(tags) : i < j => FirstToken(tags[i]) < FirstToken(tags[j])

\* C12: the welfare tagger of either program returns the canonical tags of
\* the cell's tokens, each once, in first-occurrence order; the empty list
\* for a missing cell; [五险一金, 周末双休, 餐补] for '五险,双休,餐补'.
C12_WelfareTagger ==
  parsed # NotParsed =>
    /\ IsCanonicalTagList(parsed.tags)
    /\ isna(text) => parsed.tags = <<>>
    /\ text = WelfareExample =>
         parsed.tags = <<WuXianYiJin, ZhouMoShuangXiu, CanBu>>

\* C12 of extract_welfare_tags of shixiseng.py alone.
C12_WelfareTaggerSx ==
  (parsed # NotParsed /\ parsed.by = "extract_welfare_tags") =>
    /\ IsCanonicalTagList(parsed.tags)
    /\ isna(text) => parsed.tags = <<>>
    /\ text = WelfareExample =>
         parsed.tags = <<WuXianYiJin, ZhouMoShuangXiu, CanBu>>

\* The vocabulary of the tagger that parsed the cell.
Vocabulary ==
  IF parsed.by = "extract_skills" THEN TECH_SKILLS ELSE TECH_KEYWORDS

\* Two characters that differ at most in case.
SameLetter(a, b) == upper(<<a>>) = upper(<<b>>)

\* The keyword occurs in the parsed description, case ignored.
OccursInText(keyword) ==
  \E start \in 0..(Len(text) - Len(keyword)) :
    \A i \in 1..Len(keyword) : SameLetter(text[start + i], keyword[i])

\* The place of a keyword in the vocabulary.
VocabularyIndex(keyword) ==
  CHOOSE k \in 1..Len(Vocabulary) : Vocabulary[k] = keyword

\* C13: the skill tagger of either program returns the keywords of its
\* vocabulary that occur in the description, case ignored, each once and in
\* vocabulary order; the empty list for a missing description.
C13_SkillTagger ==
  parsed # NotParsed =>
    IF isna(text) THEN parsed.tags = <<>>
    ELSE /\ Range(parsed.tags) =
              {Vocabulary[k] : k \in {j \in 1..Len(Vocabulary) :
                                        OccursInText(Vocabulary[j])}}
         /\ \A i, j \in 1..Len(parsed.tags) :
              i < j => VocabularyIndex(parsed.tags[i])
                         < VocabularyIndex(parsed.tags[j])

\* C13 happens: 'sqlspark' was tagged by app.py: both keywords are written
\* in lower case, and the list is in vocabulary order, not in text order.
C13_Witness ==
  /\ text = Chars("sqlspark")
  /\ parsed # NotParsed
  /\ parsed.by = "extract_skills_app"
  /\ parsed.tags = <<Chars("Spark"), Chars("SQL")>>

\* The parsed cell holds the keyword (a missing cell holds none).
HasKeyword(keyword) == ~isna(text) /\ Contains(text, keyword)

Doctorate == HasKeyword(BoShi)
Master    == HasKeyword(ShuoShi) \/ HasKeyword(<<"yan", "jiu", "sheng">>)
Bachelor  == HasKeyword(BenKe) \/ HasKeyword(<<"xue", "shi">>)
Associate == HasKeyword(DaZhuan) \/ HasKeyword(<<"zhuan", "ke">>)

\* C14: standardize_education returns 博士 when a doctorate keyword is
\* present; else 硕士 on a master keyword; else 本科 on a bachelor keyword;
\* else 大专 on an associate keyword; else (and for a missing cell) 不限;
\* '全日制本科及以上' gives 本科.
C14_EducationParser ==
  parsed # NotParsed =>
    /\ parsed.level \in {BoShi, ShuoShi, BenKe, DaZhuan, BuXian}
    /\ parsed.level = BoShi <=> Doctorate
    /\ parsed.level = ShuoShi <=> (~Doctorate /\ Master)
    /\ parsed.level = BenKe <=> (~Doctorate /\ ~Master /\ Bachelor)
    /\ parsed.level = DaZhuan <=>
         (~Doctorate /\ ~Master /\ ~Bachelor /\ Associate)
    /\ parsed.level = BuXian <=>
         (~Doctorate /\ ~Master /\ ~Bachelor /\ ~Associate)
    /\ isna(text) => parsed.level = BuXian
    /\ text = <<"quan", "ri", "zhi4", "ben", "ke", "ji", "yi3", "shang">> =>
         parsed.level = BenKe

\* C14 happens: a cell that names an associate degree, then a bachelor's,
\* then a doctorate was parsed to the doctorate.
C14_Witness ==
  /\ text = DaZhuan \o BenKe \o BoShi
  /\ parsed # NotParsed
  /\ parsed.level = BoShi

\* city is what stands left of the first sep of x.
IsLeftOfFirst(city, sep, x) ==
  /\ sep \notin Range(city)
  /\ Len(city) < Len(x)
  /\ SubSeq(x, 1, Len(city) + 1) = Append(city, sep)

\* C15: the city app.py derives from a location text is what stands left
\* of its first '-'; without '-', what stands left of its first '·';
\* without either, the whole text; '上海-浦东新区' gives '上海'.
C15_CityParserApp ==
  (parsed # NotParsed /\ parsed.by = "city_of_location" /\ ~isna(text)) =>
    /\ IF "-" \in Range(text) THEN IsLeftOfFirst(parsed.city, "-", text)
       ELSE IF "dot" \in Range(text) THEN IsLeftOfFirst(parsed.city, "dot", text)
       ELSE parsed.city = text
    /\ text = LocationExample => parsed.city = <<"shang", "hai">>

\* C15 happens: a text with a '·' before its '-' was cut at the '-'.
C15_Witness ==
  /\ parsed # NotParsed
  /\ parsed.by = "city_of_location"
  /\ ~isna(text)
  /\ "-" \in Range(text)
  /\ "dot" \in Range(parsed.city)

\* The keys of city_mapping that the trimmed text is, and that it holds.
TrimmedLocation == strip(text)
ExactKeys ==
  {k \in 1..Len(city_mapping) : city_mapping[k][1] = TrimmedLocation}
KeysInside ==
  {k \in 1..Len(city_mapping) : Contains(TrimmedLocation, city_mapping[k][1])}

\* C16: extract_city returns '未知' for a missing location; else the
\* canonical city of the key the trimmed text is; else that of the first
\* key, in table order, that the trimmed text contains; else the trimmed
\* text.
C16_ExtractCity ==
  (parsed # NotParsed /\ parsed.by = "extract_city") =>
    IF isna(text) THEN parsed.city = <<"wei", "zhi1">>
    ELSE IF ExactKeys # {}
      THEN \E k \in ExactKeys : parsed.city = city_mapping[k][2]
    ELSE IF KeysInside # {}
      THEN \E k \in KeysInside :
             /\ \A j \in KeysInside : k <= j
             /\ parsed.city = city_mapping[k][2]
    ELSE parsed.city = TrimmedLocation

\* C16 happens: a text that holds 南京 before 北京 and is no key was
\* resolved to 北京, the earlier key of the table.
C16_Witness ==
  /\ parsed # NotParsed
  /\ parsed.by = "extract_city"
  /\ text = <<"nan", "jing", "bei", "jing", "shi_c">>
  /\ parsed.city = <<"bei", "jing">>

\* The parsed duration cell holds the character.
HasChar(c) == ~isna(text) /\ c \in Range(text)

ThreeMonth == HasChar("3") /\ HasChar("yue")
SixMonth   == HasChar("6") /\ HasChar("yue")
LongTerm   == HasKeyword(<<"chang", "qi">>) \/ HasKeyword(<<"ling", "huo">>)

\* C17: classify_duration gives 3个月 when the text holds '3' and '月',
\* else 6个月 when it holds '6' and '月', else 长期实习 when it holds '长期'
\* or '灵活', else 其他; duration_months is the first digit run as an
\* integer, and missing without a run or a text; '至少3个月' gives 3个月
\* and 3.
C17_DurationParser ==
  /\ (parsed # NotParsed /\ parsed.by = "classify_duration") =>
       /\ parsed.category \in {SanGeYue, LiuGeYue, ChangQiShiXi, QiTa}
       /\ parsed.category = SanGeYue <=> ThreeMonth
       /\ parsed.category = LiuGeYue <=> (~ThreeMonth /\ SixMonth)
       /\ parsed.category = ChangQiShiXi <=>
            (~ThreeMonth /\ ~SixMonth /\ LongTerm)
       /\ text = <<"zhi", "shao", "3", "ge", "yue">> =>
            parsed.category = SanGeYue
  /\ (parsed # NotParsed /\ parsed.by = "extract_duration_months") =>
       /\ parsed.months =
            IF RunsOfText = <<>> THEN NaN ELSE int(RunsOfText[1])
       /\ text = <<"zhi", "shao", "3", "ge", "yue">> => parsed.months = 3

\* C17 happens: a text with a '6' before its '3' and the unit was put in
\* the three-month class.
C17_Witness ==
  /\ parsed # NotParsed
  /\ parsed.by = "classify_duration"
  /\ text = <<"6", "3", "ge", "yue">>
  /\ parsed.category = SanGeYue

\* C17 happens for the month count: a text of two digit runs gave the
\* first.
C17_WitnessMonths ==
  /\ parsed # NotParsed
  /\ parsed.by = "extract_duration_months"
  /\ text = <<"3", "-", "6">>
  /\ parsed.months = 3

\* The cleaned frame of the program that runs, computed from rows.
CleanedFrom(rows) ==
  IF Sx THEN load_and_clean_data(rows) ELSE load_and_clean_data_app(rows)

\* C18: a script run on a readable data file whose content is what was
\* loaded takes the cached frame without reading the file again, and every
\* script run serves the frame cleaned from the file's current content.
C18_CacheFollowsSource ==
  [][ (readable # {} /\ raw' = raw /\ loaded') =>
        /\ (loaded /\ df = CleanedFrom(raw)) => (tried' = tried /\ df' = df)
        /\ df' = CleanedFrom(raw') ]_vars

\* The pairs of app.py in the order it asks for them: path by path, and
\* for each path encoding by encoding.
PairsInOrder ==
  [n \in 1..(Len(possible_paths) * Len(encodings)) |->
     <<possible_paths[((n - 1) \div Len(encodings)) + 1],
       encodings[((n - 1) % Len(encodings)) + 1]>>]

\* The places in that order of the pairs pd.read_csv returns for.
ReadablePlaces == {n \in DOMAIN PairsInOrder : PairsInOrder[n] \in readable}

\* The steps that come after the load: the sidebar, the filter, rendering.
LaterSteps ==
  {"sidebar", "filter", "zero_state", "kpi", "charts", "recommendation",
   "table", "export"}

\* C19: app.py reads the pairs in order up to the first one that parses,
\* reads no later pair, and cleans the frame of that read; when no pair
\* parses it has read all of them, reports the error, has no data, and the
\* run stops before the sidebar, the filter and every rendering step,
\* without raising.  (shixiseng.py reads its one pair and stops the same
\* way when that fails.)
C19_LoadFirstReadablePair ==
  /\ (App /\ loaded) =>
       IF ReadablePlaces # {}
       THEN /\ tried = SubSeq(PairsInOrder, 1, Min(ReadablePlaces))
            /\ df = load_and_clean_data_app(raw)
            /\ "error" \notin Range(page)
       ELSE /\ tried = PairsInOrder
            /\ df = <<>>
            /\ filtered_df = <<>>
            /\ outcome = "no_data"
            /\ page = <<"load", "error", "stop">>
            /\ Range(page) \cap LaterSteps = {}
  /\ (Sx /\ tried # <<>> /\ <<DATA_PATH, "utf-8">> \notin readable) =>
       /\ outcome = "no_data"
       /\ page = <<"load", "error", "stop">>
  /\ outcome \notin {"IndexError", "ValueError"} \/ Sx

\* C19 happens: the first path failed under every encoding, the second
\* parsed as gbk, and a later encoding and a later path parse too.
C19_Witness ==
  /\ App /\ loaded
  /\ Len(tried) = 6
  /\ tried[6] = <<possible_paths[2], "gbk">>
  /\ <<possible_paths[2], "gb18030">> \in readable
  /\ <<possible_paths[3], "utf-8">> \in readable
  /\ outcome = "returned"

\* C19 happens: no pair parsed and the run was stopped.
C19_WitnessNoData ==
  /\ App /\ loaded
  /\ readable = {}
  /\ Len(tried) = 12
  /\ outcome = "no_data"

\* The steps that draw from the filtered frame.
RenderSteps == {"kpi", "charts", "recommendation", "table", "export"}

\* C20: a run whose filter returned no row shows the zero state and ends
\* there, with no chart, table, recommendation or export step and without
\* raising; those steps run only after the filter returned some row.
C20_EmptyResultEndsRun ==
  /\ (outcome # "none" /\ "filter" \in Range(page) /\ filtered_df = <<>>) =>
       /\ outcome = "returned"
       /\ "zero_state" \in Range(page)
       /\ Range(page) \cap RenderSteps = {}
       /\ \A n \in 1..Len(page) :
            page[n] = "zero_state" =>
              SubSeq(page, n + 1, Len(page)) \in {<<>>, <<"stop">>}
  /\ Range(page) \cap RenderSteps # {} =>
       /\ outcome = "returned"
       /\ filtered_df # <<>>
       /\ "zero_state" \notin Range(page)

\* C20 happens: on a frame with rows, a widget change made the filter
\* return none, and the run ended in the zero state.
C20_Witness ==
  /\ Returned
  /\ df # <<>>
  /\ filtered_df = <<>>
  /\ criteria # Defaults
  /\ "zero_state" \in Range(page)

\* C21: after any sequence of script runs the cleaned frame is still the
\* one the load produced from the file (same rows, same values, same
\* order), and what the filter returned is what the criteria of the run
\* select from that frame, whatever the earlier runs selected.
C21_FilterLeavesFrame ==
  (loaded /\ readable # {}) =>
    /\ df = CleanedFrom(raw)
    /\ Returned => filtered_df = FilterRows(criteria)

\* C21 happens: a widget change made the filter drop every row of a frame
\* of two rows, and the frame still has both.
C21_Witness ==
  /\ Returned
  /\ criteria # Defaults
  /\ Len(df) = 2
  /\ filtered_df = <<>>

\* C22: no row of the frame app.py cleaned comes from a raw row whose
\* location is missing.
C22_MissingLocationDropped ==
  (App /\ loaded) => \A r \in Rows(df) : ~isna(raw[r.idx].location)

\* C22 of the rows the validity test does drop for their city: no row of
\* the cleaned frame has the empty city (a location that starts with '-').
C22_EmptyCityDropped ==
  (App /\ loaded) => \A r \in Rows(df) : r.city # <<>>

\* The keywords a box holds: its maximal runs of characters with no blank.
BoxKeywords(inp) ==
  {SubSeq(inp, i, j) : i \in 1..Len(inp), j \in 1..Len(inp)}
    \cap {SubSeq(inp, i, j) : <<i, j>> \in
            {ij \in (1..Len(inp)) \X (1..Len(inp)) :
               /\ ij[1] <= ij[2]
               /\ \A n \in ij[1]..ij[2] : inp[n] # " "
               /\ ij[1] = 1 \/ inp[ij[1] - 1] = " "
               /\ ij[2] = Len(inp) \/ inp[ij[2] + 1] = " "}}

\* The keywords the three boxes hold.
EnteredKeywords == UNION {BoxKeywords(welfare_inputs[b]) : b \in 1..3}

\* The tags of the rows of the cleaned frame.
KnownTags == UNION {Range(r.welfare_tags) : r \in Rows(df)}

\* a occurs in b, case ignored.
OccursIn(a, b) ==
  \E start \in 0..(Len(b) - Len(a)) :
    \A i \in 1..Len(a) : SameLetter(b[start + i], a[i])

\* C23: the tags shixiseng.py hands to the filter are the known tags t for
\* which some keyword k of the boxes occurs in t or t occurs in k, case
\* ignored; none of them is unknown.
C23_KeywordResolution ==
  (variant = "shixiseng" /\ loaded /\ Returned) =>
    /\ criteria.welfare_prefs =
         {t \in KnownTags :
            \E k \in EnteredKeywords : OccursIn(k, t) \/ OccursIn(t, k)}
    /\ criteria.welfare_prefs \subseteq KnownTags

\* C23 happens: a keyword in another case than its tag and a keyword that
\* a tag is part of resolved to those two tags, and to no other known tag.
C23_Witness ==
  /\ Returned
  /\ welfare_inputs = <<Chars("gym"), <<"can", "bu3", "tie">>, <<>>>>
  /\ criteria.welfare_prefs = {Chars("Gym"), CanBu}
  /\ FangBu \in KnownTags

\* A keyword of the box matches a tag of the posting.
BoxMatchesRow(b, r) ==
  \E k \in BoxKeywords(welfare_inputs[b]), t \in Range(r.welfare_tags) :
    OccursIn(k, t) \/ OccursIn(t, k)

\* C24: the keywords of one box are alternatives and the boxes are
\* combined with AND: a posting that has, for each box that holds a
\* keyword, a tag matched by a keyword of that box is retained by the
\* welfare filter.
C24_BoxAlternatives ==
  (variant = "shixiseng" /\ loaded /\ Returned) =>
    \A r \in Rows(df) :
      (\A b \in 1..3 : BoxKeywords(welfare_inputs[b]) # {} => BoxMatchesRow(b, r))
        => r \in Rows(filtered_df)

\* C24 as the filter works: the postings retained are those that hold
\* every tag matched by any keyword of any box.
C24_EveryMatchedTag ==
  (variant = "shixiseng" /\ loaded /\ Returned) =>
    Rows(filtered_df) =
      {r \in Rows(df) :
         \A t \in KnownTags :
           (\E k \in EnteredKeywords : OccursIn(k, t) \/ OccursIn(t, k))
             => t \in Range(r.welfare_tags)}

\* C25: extract_welfare_tags is idempotent: on its own output, joined with
\* commas, it returns the same list; every canonical value of the synonym
\* table maps to itself, as a key of itself or as no key at all.
C25_WelfareIdempotent ==
  /\ parsed.by = "extract_welfare_tags_again" => parsed.tags = parsed.first
  /\ \A k \in DOMAIN welfare_mapping :
       LET canonical == welfare_mapping[k][2]
           keys      == {welfare_mapping[j][1] : j \in DOMAIN welfare_mapping}
       IN  /\ welfare_mapping_get(canonical) = canonical
           /\ canonical \in keys =>
                \A j \in DOMAIN welfare_mapping :
                  welfare_mapping[j][1] = canonical
                    => welfare_mapping[j][2] = canonical

\* C25 happens: a cell of two synonyms was normalized to two canonical
\* tags, one of them no key of the table, and normalized again from the
\* joined list.
C25_Witness ==
  /\ parsed.by = "extract_welfare_tags_again"
  /\ text = <<"shuang", "xiu", ",", "tuan", "jian">>
  /\ parsed.joined = ZhouMoShuangXiu \o <<",">> \o <<"tuan", "jian", "huo", "dong4">>
  /\ parsed.tags = <<ZhouMoShuangXiu, <<"tuan", "jian", "huo", "dong4">>>>

=============================================================================
